---------------------------- MODULE Spec2Model ----------------------------
(***************************************************************************)
(* Command parsing and dispatch of src/cmd/mod.rs: Command::from_frame,    *)
(* Command::apply and Command::get_name, run by one connection task that   *)
(* receives a frame, parses it step by step, applies the parsed command    *)
(* against the shared Db and writes the response to its Connection.        *)
(*                                                                         *)
(* Frame, Parse, Get, Unknown, Db and Connection are modules of the crate  *)
(* whose files are not part of the sources at hand; they are modelled      *)
(* from their documented contracts.                                        *)
(***************************************************************************)
EXTENDS Naturals, Sequences, FiniteSets

\* ------------------------------------------------------------------ bounds

\* Largest number of elements that follow the command name in a request.
MaxArgs == 2

\* Largest number of times the task applies the command of one request.
MaxApplies == 2

\* ----------------------------------------------------------------- strings
\* A string is a sequence of one-letter strings, so that case folding is
\* computed letter by letter.

LowerLetters == {"g", "e", "t", "s", "k"}

UpperOf == [c \in LowerLetters |->
              CASE c = "g" -> "G" [] c = "e" -> "E" [] c = "t" -> "T"
                [] c = "s" -> "S" [] c = "k" -> "K"]

Letters == LowerLetters \cup {UpperOf[c] : c \in LowerLetters}

\* char::to_lowercase on the letters of the model.
LowerChar == [c \in Letters |->
                IF c \in LowerLetters THEN c
                ELSE CHOOSE l \in LowerLetters : UpperOf[l] = c]

RECURSIVE to_lowercase(_)
to_lowercase(s) ==
    IF s = <<>> THEN <<>> ELSE <<LowerChar[Head(s)]>> \o to_lowercase(Tail(s))

\* Every spelling of the lowercase word w in upper and lower case letters.
RECURSIVE CaseVariants(_)
CaseVariants(w) ==
    IF w = <<>> THEN {<<>>}
    ELSE {<<c>> \o r : c \in {Head(w), UpperOf[Head(w)]},
                       r \in CaseVariants(Tail(w))}

\* ------------------------------------------------------------------ frames
\* An element of an array, or a response frame: its variant and, for the
\* string variants, its text.

Bulk(s) == [kind |-> "Bulk", str |-> s]
Simple(s) == [kind |-> "Simple", str |-> s]
Integer == [kind |-> "Integer", str |-> <<>>]
Null == [kind |-> "Null", str |-> <<>>]
Error(s) == [kind |-> "Error", str |-> s]
NestedArray == [kind |-> "Array", str |-> <<>>]

\* A top-level frame: an element, and for the Array variant its elements.
Array(es) == [kind |-> "Array", str |-> <<>>, elems |-> es]
Scalar(e) == [kind |-> e.kind, str |-> e.str, elems |-> <<>>]

IsString(e) == e.kind \in {"Bulk", "Simple"}

\* ------------------------------------------------------------------ inputs

\* The command names a client sends: every spelling of get and of set.
Words == {<<"g", "e", "t">>, <<"s", "e", "t">>}
Names == UNION {CaseVariants(w) : w \in Words}

\* The keys a client asks for; they differ in letter case only.
Keys == {<<"k">>, <<"K">>}

\* The values the store holds.
Values == {<<"bar">>, <<"baz">>}

NonStrings == {Integer, Null, Error(<<"e">>), NestedArray}

\* What may stand first in a request: a name in any spelling as a bulk
\* string, in lower case as a simple string, or a frame that is no string.
HeadElems == {Bulk(n) : n \in Names} \cup {Simple(w) : w \in Words}
                 \cup NonStrings

\* What may follow the name: a key as a bulk or simple string, or a frame
\* that is no string.
ArgElems == {Bulk(k) : k \in Keys} \cup {Simple(<<"k">>)}
                \cup {Integer, Null, Error(<<"e">>)}

RECURSIVE SeqsUpTo(_, _)
SeqsUpTo(S, n) ==
    IF n = 0 THEN {<<>>}
    ELSE LET shorter == SeqsUpTo(S, n - 1)
         IN shorter \cup {Append(t, e) : t \in shorter, e \in S}

Frames ==
    {Array(<<h>> \o t) : h \in HeadElems, t \in SeqsUpTo(ArgElems, MaxArgs)}
        \cup {Array(<<>>)}
        \cup {Scalar(e) : e \in {Bulk(<<"g", "e", "t">>), Simple(<<"g", "e", "t">>),
                                 Integer, Null, Error(<<"e">>)}}

NoFrame == Scalar(Null)

\* ----------------------------------------------------------------- command

NoCommand == [kind |-> "None", key |-> <<>>, command_name |-> <<>>]
GetCmd(key) == [kind |-> "Get", key |-> key, command_name |-> <<>>]
\* Unknown::new
Unknown_new(name) == [kind |-> "Unknown", key |-> <<>>, command_name |-> name]

\* crate::Result<Command>
Pending == [tag |-> "Pending", cmd |-> NoCommand, err |-> "none"]
Ok(c) == [tag |-> "Ok", cmd |-> c, err |-> "none"]
Err(e) == [tag |-> "Err", cmd |-> NoCommand, err |-> e]

\* ------------------------------------------------------------------- Parse
\* The cursor: the elements of the array and the position of the next one.

\* Parse::new: only an Array frame gives a cursor.
Parse_new(f) ==
    IF f.kind = "Array" THEN [ok |-> TRUE, err |-> "none"]
    ELSE [ok |-> FALSE, err |-> "NotAnArray"]

\* Parse::next_string: the next element, which must be a string.
next_string(es, p) ==
    IF p >= Len(es) THEN [ok |-> FALSE, str |-> <<>>, pos |-> p, err |-> "EndOfStream"]
    ELSE IF IsString(es[p + 1])
         THEN [ok |-> TRUE, str |-> es[p + 1].str, pos |-> p + 1, err |-> "none"]
         ELSE [ok |-> FALSE, str |-> <<>>, pos |-> p + 1, err |-> "InvalidFrameType"]

\* Parse::finish: no element may be left.
finish(es, p) ==
    IF p >= Len(es) THEN [ok |-> TRUE, err |-> "none"]
    ELSE [ok |-> FALSE, err |-> "TrailingElements"]

\* Get::parse_frames: the key is the next string.
Get_parse_frames(es, p) ==
    LET r == next_string(es, p)
    IN [ok |-> r.ok, cmd |-> IF r.ok THEN GetCmd(r.str) ELSE NoCommand,
        pos |-> r.pos, err |-> r.err]


\* ---------------------------------------------------------------- Db, apply

NoValue == <<>>

\* Db::get: the value stored under key, if any.
Db_get(db, key) ==
    IF key \in DOMAIN db /\ db[key] # NoValue
    THEN [found |-> TRUE, value |-> db[key]]
    ELSE [found |-> FALSE, value |-> NoValue]

\* Get::apply(db, dst): one lookup, one response frame; the Db is only read.
Get_apply(c, db) ==
    LET r == Db_get(db, c.key)
    IN [writes |-> <<IF r.found THEN Bulk(r.value) ELSE Null>>,
        db |-> db, reads |-> 1, res |-> "Ok"]

UnknownMessage(name) == <<"ERR unknown command '">> \o name \o <<"'">>

\* Unknown::apply(dst): an error frame naming the command; it is given no Db.
Unknown_apply(c) ==
    [writes |-> <<Error(UnknownMessage(c.command_name))>>, reads |-> 0, res |-> "Ok"]

\* Unknown::apply is given the connection only: the Db stays as it is.
Unknown_arm(c, db) ==
    LET r == Unknown_apply(c)
    IN [writes |-> r.writes, db |-> db, reads |-> r.reads, res |-> r.res]

\* What apply leaves behind: the outcome r of the arm taken, and the shutdown
\* signal as it stands after the call.
Outcome(r, signal) ==
    [writes |-> r.writes, db |-> r.db, reads |-> r.reads, res |-> r.res,
     signal |-> signal]

\* Variants of Command::apply.
\* Every command is answered by the Unknown arm.
Command_apply_allunknown(c, db, shutdown) ==
    Outcome(Unknown_arm(c, db), shutdown)

\* Every command is answered by the Get arm.
Command_apply_alllookup(c, db, shutdown) ==
    Outcome(Get_apply(c, db), shutdown)

\* The Get arm takes the value out of the Db instead of reading it.
Command_apply_taking(c, db, shutdown) ==
    IF c.kind = "Get"
    THEN LET r == Get_apply(c, db)
         IN Outcome([r EXCEPT !.db = [k \in DOMAIN db |->
                                         IF k = c.key THEN NoValue ELSE db[k]]],
                    shutdown)
    ELSE Outcome(Unknown_arm(c, db), shutdown)

\* A signalled shutdown ends apply before the response is written.
Command_apply_shutdown(c, db, shutdown) ==
    IF shutdown
    THEN [writes |-> <<>>, db |-> db, reads |-> 0, res |-> "Ok",
          signal |-> shutdown]
    ELSE IF c.kind = "Get"
    THEN Outcome(Get_apply(c, db), shutdown)
    ELSE Outcome(Unknown_arm(c, db), shutdown)

\* A signalled shutdown is answered by an error instead of the response.
Command_apply_refuse(c, db, shutdown) ==
    IF shutdown
    THEN [writes |-> <<Error(<<"ERR shutting down">>)>>, db |-> db,
          reads |-> 0, res |-> "Err", signal |-> shutdown]
    ELSE IF c.kind = "Get"
    THEN Outcome(Get_apply(c, db), shutdown)
    ELSE Outcome(Unknown_arm(c, db), shutdown)

\* Command::apply: the match on the variant. Only the Get arm is handed the
\* Db; the shutdown argument is not used.
Command_apply(c, db, shutdown) ==
    IF c.kind = "Get"
    THEN Outcome(Get_apply(c, db), shutdown)
    ELSE Outcome(Unknown_arm(c, db), shutdown)

\* Unknown::get_name
Unknown_get_name(c) == c.command_name

\* Variant of get_name that answers "get" for every command.
get_name_always_get(c) == <<"g", "e", "t">>

\* Command::get_name: "get", or the name the Unknown command carries.
get_name(c) ==
    IF c.kind = "Get" THEN <<"g", "e", "t">> ELSE Unknown_get_name(c)

\* ------------------------------------------------------------- from_frame
\* The locals of one from_frame call: where it stands (pc), the cursor
\* position, command_name, command, the value returned, and the steps
\* passed so far.

StartCtx ==
    [pc |-> "new", pos |-> 0, command_name |-> <<>>, command |-> NoCommand,
     ret |-> Pending, steps |-> <<>>]

Fail(c, step, p, e) ==
    [c EXCEPT !.pc = "err", !.pos = p, !.ret = Err(e), !.steps = Append(@, step)]

\* Variant of step_new that drops the `?`: a failed construction goes on.
step_new_unchecked(f, c) ==
    [c EXCEPT !.pc = "name", !.steps = Append(@, "new")]

\* let mut parse = Parse::new(frame)?;
step_new(f, c) ==
    LET r == Parse_new(f)
    IN IF r.ok THEN [c EXCEPT !.pc = "name", !.steps = Append(@, "new")]
       ELSE Fail(c, "new", c.pos, r.err)

\* Variant of lower_name that drops to_lowercase().
lower_name_asis(s) == s

\* The name as matched: converted to lower case.
lower_name(s) == to_lowercase(s)

\* Variant of step_name that reads the name from a cursor of its own, so
\* that the cursor handed on still stands at the start.
step_name_rewind(f, c) ==
    LET r == next_string(f.elems, c.pos)
    IN IF r.ok
       THEN [c EXCEPT !.pc = "route", !.command_name = lower_name(r.str),
                      !.steps = Append(@, "name")]
       ELSE Fail(c, "name", r.pos, r.err)

\* Variant of step_name that drops the `?`: a name that cannot be read
\* counts as the empty name.
step_name_unchecked(f, c) ==
    LET r == next_string(f.elems, c.pos)
    IN [c EXCEPT !.pc = "route", !.pos = r.pos,
                 !.command_name = lower_name(r.str),
                 !.steps = Append(@, "name")]

\* let command_name = parse.next_string()?.to_lowercase();
step_name(f, c) ==
    LET r == next_string(f.elems, c.pos)
    IN IF r.ok
       THEN [c EXCEPT !.pc = "route", !.pos = r.pos,
                      !.command_name = lower_name(r.str),
                      !.steps = Append(@, "name")]
       ELSE Fail(c, "name", r.pos, r.err)

\* Variant of is_get whose "get" arm takes the name set as well.
is_get_or_set(name) == name \in {<<"g", "e", "t">>, <<"s", "e", "t">>}

\* The command table of the match.
is_get(name) == name = <<"g", "e", "t">>

\* Variant of step_route without the early return: an unrecognized name
\* goes through finish() like a recognized one.
step_route_strict(f, c) ==
    IF is_get(c.command_name)
    THEN [c EXCEPT !.pc = "variant", !.steps = Append(@, "route")]
    ELSE [c EXCEPT !.pc = "finish", !.command = Unknown_new(c.command_name),
                   !.steps = Append(@, "route")]

\* match &command_name[..]: "get" goes on to Get::parse_frames, any other
\* name returns Ok(Unknown) at once, skipping finish().
step_route(f, c) ==
    IF is_get(c.command_name)
    THEN [c EXCEPT !.pc = "variant", !.steps = Append(@, "route")]
    ELSE [c EXCEPT !.pc = "ok", !.command = Unknown_new(c.command_name),
                   !.ret = Ok(Unknown_new(c.command_name)),
                   !.steps = Append(@, "route")]

\* Variant of step_variant that case-folds the key like the command name.
step_variant_foldkey(f, c) ==
    LET r == Get_parse_frames(f.elems, c.pos)
    IN IF r.ok
       THEN [c EXCEPT !.pc = "finish", !.pos = r.pos,
                      !.command = GetCmd(to_lowercase(r.cmd.key)),
                      !.steps = Append(@, "variant")]
       ELSE Fail(c, "variant", r.pos, r.err)

\* Variant of step_variant that returns the command at once, without the
\* finish() that follows the match.
step_variant_nofinish(f, c) ==
    LET r == Get_parse_frames(f.elems, c.pos)
    IN IF r.ok
       THEN [c EXCEPT !.pc = "ok", !.pos = r.pos, !.command = r.cmd,
                      !.ret = Ok(r.cmd), !.steps = Append(@, "variant")]
       ELSE Fail(c, "variant", r.pos, r.err)

\* Command::Get(Get::parse_frames(&mut parse)?)
step_variant(f, c) ==
    LET r == Get_parse_frames(f.elems, c.pos)
    IN IF r.ok
       THEN [c EXCEPT !.pc = "finish", !.pos = r.pos, !.command = r.cmd,
                      !.steps = Append(@, "variant")]
       ELSE Fail(c, "variant", r.pos, r.err)

\* Variant of step_finish that drops the `?`: leftover elements are let by.
step_finish_lenient(f, c) ==
    [c EXCEPT !.pc = "ok", !.ret = Ok(c.command), !.steps = Append(@, "finish")]

\* Variant of step_finish that, on elements left over, goes back to the
\* parser of the command to have it read on.
step_finish_retry(f, c) ==
    LET r == finish(f.elems, c.pos)
    IN IF r.ok
       THEN [c EXCEPT !.pc = "ok", !.ret = Ok(c.command),
                      !.steps = Append(@, "finish")]
       ELSE [c EXCEPT !.pc = "variant", !.steps = Append(@, "finish")]

\* parse.finish()?; Ok(command)
step_finish(f, c) ==
    LET r == finish(f.elems, c.pos)
    IN IF r.ok
       THEN [c EXCEPT !.pc = "ok", !.ret = Ok(c.command),
                      !.steps = Append(@, "finish")]
       ELSE Fail(c, "finish", c.pos, r.err)

\* One step of from_frame from wherever it stands; a finished call stays.
Step(f, c) ==
    CASE c.pc = "new" -> step_new(f, c)
      [] c.pc = "name" -> step_name(f, c)
      [] c.pc = "route" -> step_route(f, c)
      [] c.pc = "variant" -> step_variant(f, c)
      [] c.pc = "finish" -> step_finish(f, c)
      [] OTHER -> c

\* Command::from_frame as a function of the frame: the five steps in a row.
from_frame(f) ==
    LET c1 == Step(f, StartCtx)
        c2 == Step(f, c1)
        c3 == Step(f, c2)
        c4 == Step(f, c3)
        c5 == Step(f, c4)
    IN c5.ret

\* ------------------------------------------------------------------- state

VARIABLES
    frame,          \* the frame of the request being served
    pc,             \* idle, or where from_frame stands, or ok / err
    pos,            \* the cursor position
    command_name,   \* from_frame's command_name
    command,        \* from_frame's command
    ret,            \* what from_frame returned
    steps,          \* the steps of from_frame passed so far
    store,          \* the Db: key -> value or NoValue
    conn,           \* the frames written to the Connection for this request
    reads,          \* the Db lookups made for this request
    last,           \* the latest apply call: its arguments and its outcome
    name_out        \* what get_name returned for the command, once asked

vars == <<frame, pc, pos, command_name, command, ret, steps, store, conn,
          reads, last, name_out>>

parseVars == <<pc, pos, command_name, command, ret, steps>>

Ctx ==
    [pc |-> pc, pos |-> pos, command_name |-> command_name,
     command |-> command, ret |-> ret, steps |-> steps]

SetCtx(c) ==
    /\ pc' = c.pc
    /\ pos' = c.pos
    /\ command_name' = c.command_name
    /\ command' = c.command
    /\ ret' = c.ret
    /\ steps' = c.steps

NoApply ==
    [n |-> 0, db |-> [k \in Keys |-> NoValue], shutdown |-> FALSE,
     writes |-> <<>>, res |-> "none", signal |-> FALSE]

\* get_name has not been called for the command.
NoName == [asked |-> FALSE, name |-> <<>>]

Idle ==
    /\ frame = NoFrame
    /\ pc = "idle"
    /\ pos = 0
    /\ command_name = <<>>
    /\ command = NoCommand
    /\ ret = Pending
    /\ steps = <<>>
    /\ conn = <<>>
    /\ reads = 0
    /\ last = NoApply
    /\ name_out = NoName

\* A new Db is empty; the task waits for its first request.
Init ==
    /\ Idle
    /\ store = [k \in Keys |-> NoValue]

\* ----------------------------------------------------------------- actions

\* The connection hands the task one decoded frame; from_frame is called.
Receive ==
    /\ pc = "idle"
    /\ \E f \in Frames : frame' = f
    /\ SetCtx(StartCtx)
    /\ UNCHANGED <<store, conn, reads, last, name_out>>

FromFrame_New ==
    /\ pc = "new"
    /\ SetCtx(step_new(frame, Ctx))
    /\ UNCHANGED <<frame, store, conn, reads, last, name_out>>

FromFrame_Name ==
    /\ pc = "name"
    /\ SetCtx(step_name(frame, Ctx))
    /\ UNCHANGED <<frame, store, conn, reads, last, name_out>>

FromFrame_Route ==
    /\ pc = "route"
    /\ SetCtx(step_route(frame, Ctx))
    /\ UNCHANGED <<frame, store, conn, reads, last, name_out>>

FromFrame_Variant ==
    /\ pc = "variant"
    /\ SetCtx(step_variant(frame, Ctx))
    /\ UNCHANGED <<frame, store, conn, reads, last, name_out>>

FromFrame_Finish ==
    /\ pc = "finish"
    /\ SetCtx(step_finish(frame, Ctx))
    /\ UNCHANGED <<frame, store, conn, reads, last, name_out>>

\* The task applies the command from_frame returned, with the Db, its
\* Connection and a shutdown handle that may or may not have been signalled.
\* A command equal to it may be applied again for the same request.
Apply ==
    /\ pc = "ok"
    /\ last.n < MaxApplies
    /\ \E shutdown \in BOOLEAN :
         LET r == Command_apply(ret.cmd, store, shutdown)
         IN /\ store' = r.db
            /\ conn' = conn \o r.writes
            /\ reads' = reads + r.reads
            /\ last' = [n |-> last.n + 1, db |-> store, shutdown |-> shutdown,
                        writes |-> r.writes, res |-> r.res,
                        signal |-> r.signal]
    /\ UNCHANGED <<frame, pc, pos, command_name, command, ret, steps, name_out>>

\* The task asks the command from_frame returned for its name.
GetName ==
    /\ pc = "ok"
    /\ ~name_out.asked
    /\ name_out' = [asked |-> TRUE, name |-> get_name(ret.cmd)]
    /\ UNCHANGED <<frame, pc, pos, command_name, command, ret, steps, store,
                   conn, reads, last>>

\* The request is over, by a response or by a parse error; the task waits
\* for the next one.
Done ==
    /\ pc \in {"ok", "err"}
    /\ frame' = NoFrame
    /\ pc' = "idle"
    /\ pos' = 0
    /\ command_name' = <<>>
    /\ command' = NoCommand
    /\ ret' = Pending
    /\ steps' = <<>>
    /\ conn' = <<>>
    /\ reads' = 0
    /\ last' = NoApply
    /\ name_out' = NoName
    /\ UNCHANGED store

\* Between the task's requests other tasks set or expire keys of the Db.
Db_set ==
    /\ pc = "idle"
    /\ \E k \in Keys, v \in Values \cup {NoValue} :
         store' = [store EXCEPT ![k] = v]
    /\ UNCHANGED <<frame, pc, pos, command_name, command, ret, steps, conn,
                   reads, last, name_out>>

Next ==
    \/ Receive
    \/ FromFrame_New
    \/ FromFrame_Name
    \/ FromFrame_Route
    \/ FromFrame_Variant
    \/ FromFrame_Finish
    \/ Apply
    \/ GetName
    \/ Done
    \/ Db_set

Spec == Init /\ [][Next]_vars

\* ------------------------------------------------------ properties: parse

GetWord == <<"g", "e", "t">>

\* from_frame has returned for the request at hand.
Returned == pc \in {"ok", "err"}

\* The frame is an array that starts with a string.
HeadIsString(f) ==
    /\ f.kind = "Array"
    /\ Len(f.elems) >= 1
    /\ IsString(f.elems[1])

\* The frame is an array that starts with some spelling of "get".
HeadIsGet(f) == HeadIsString(f) /\ to_lowercase(f.elems[1].str) = GetWord

\* Exactly one element follows the command name, and it is a string.
OneStringArg(f) == Len(f.elems) = 2 /\ IsString(f.elems[2])

\* C1: a request that names get in any spelling and is followed by anything
\* but exactly one string (nothing, two or more elements, or a non-string)
\* never yields a Command; once from_frame has returned, it returned Err.
C1_GetWrongArityIsError ==
    (HeadIsGet(frame) /\ ~OneStringArg(frame)) =>
        /\ ret.tag # "Ok"
        /\ ret.cmd = NoCommand
        /\ Returned => ret.tag = "Err"

\* from_frame returned Err on get followed by two strings.
C1_Witness ==
    /\ Returned
    /\ HeadIsGet(frame)
    /\ Len(frame.elems) = 3
    /\ IsString(frame.elems[2])
    /\ IsString(frame.elems[3])
    /\ ret = Err("TrailingElements")

\* C2: a request whose first element is a string that in lower case is no
\* known command returns Ok(Unknown) carrying exactly that lower-case name,
\* whatever follows the name.
C2_UnrecognizedIsUnknown ==
    (Returned /\ HeadIsString(frame) /\ ~HeadIsGet(frame)) =>
        /\ ret.tag = "Ok"
        /\ ret.cmd.kind = "Unknown"
        /\ ret.cmd.command_name = to_lowercase(frame.elems[1].str)
        /\ ret.cmd.key = <<>>

\* from_frame returned Unknown for a name sent in upper case and followed by
\* two elements, one of them not a string.
C2_Witness ==
    /\ Returned
    /\ HeadIsString(frame)
    /\ frame.elems[1].str = <<"S", "E", "T">>
    /\ Len(frame.elems) = 3
    /\ ~IsString(frame.elems[2])
    /\ ret.tag = "Ok"
    /\ ret.cmd.command_name = <<"s", "e", "t">>

\* C3: for a top-level frame that is not an array from_frame fails at the
\* construction of the cursor: that is its only step, no element is read
\* and no Command is produced.
C3_NonArrayIsError ==
    (frame.kind # "Array" /\ pc \notin {"idle", "new"}) =>
        /\ pc = "err"
        /\ ret = Err("NotAnArray")
        /\ steps = <<"new">>
        /\ pos = 0
        /\ command = NoCommand

\* from_frame returned Err for a bulk string sent in place of a request.
C3_Witness ==
    /\ pc = "err"
    /\ frame.kind = "Bulk"
    /\ frame.str = GetWord
    /\ ret.tag = "Err"

\* The frames that differ from f in the letter case of the first element
\* at most.
CaseSiblings(f) ==
    IF f.kind = "Array" /\ Len(f.elems) >= 1
    THEN {Array(<<[kind |-> f.elems[1].kind, str |-> n]>> \o Tail(f.elems)) :
              n \in CaseVariants(to_lowercase(f.elems[1].str))}
    ELSE {f}

C5_GetParsesKey ==
    (Returned /\ HeadIsGet(frame) /\ OneStringArg(frame)) =>
        /\ ret.tag = "Ok"
        /\ ret.cmd.kind = "Get"
        /\ ret.cmd.key = frame.elems[2].str
        /\ steps = <<"new", "name", "route", "variant", "finish">>
        /\ pos = 2

\* from_frame returned Get with an upper-case key for GET K.
C5_Witness ==
    /\ Returned
    /\ frame = Array(<<Bulk(<<"G", "E", "T">>), Bulk(<<"K">>)>>)
    /\ ret = Ok(GetCmd(<<"K">>))

\* ------------------------------------------------------ properties: apply

\* The command from_frame returned has been applied at least once.
Applied == last.n >= 1

\* The step is a call of Command::apply.
ApplyStep == pc = "ok" /\ last'.n = last.n + 1

\* What the Db that apply was given holds under the key of the command.
Stored(db, key) == IF key \in DOMAIN db THEN db[key] ELSE NoValue

\* C6: applying Get{key} writes exactly one frame to the connection: the
\* stored value as a bulk string when the Db holds the key, Null when it
\* does not.
C6_GetResponse ==
    (Applied /\ ret.cmd.kind = "Get") =>
        /\ Len(last.writes) = 1
        /\ Len(conn) = last.n
        /\ conn[Len(conn)] = last.writes[1]
        /\ Stored(last.db, ret.cmd.key) # NoValue =>
               last.writes[1] = [kind |-> "Bulk", str |-> Stored(last.db, ret.cmd.key)]
        /\ Stored(last.db, ret.cmd.key) = NoValue =>
               last.writes[1] = [kind |-> "Null", str |-> <<>>]

\* Get K was applied to a Db that holds baz under K and nothing under k.
C6_Witness ==
    /\ Applied
    /\ ret.cmd = GetCmd(<<"K">>)
    /\ last.db[<<"K">>] = <<"baz">>
    /\ last.db[<<"k">>] = NoValue
    /\ conn = <<Bulk(<<"baz">>)>>

\* C7: applying a Get command leaves the Db as it was, whether or not the
\* key is present.
C7_GetKeepsStore ==
    [][(ApplyStep /\ ret.cmd.kind = "Get") => store' = store]_vars

\* Get was applied for a present key, and the Db still holds what apply was
\* given.
C7_Witness ==
    /\ Applied
    /\ ret.cmd.kind = "Get"
    /\ Stored(last.db, ret.cmd.key) = <<"bar">>
    /\ store = last.db

Contains(msg, part) ==
    \E i \in 0..Len(msg) :
        /\ i + Len(part) <= Len(msg)
        /\ SubSeq(msg, i + 1, i + Len(part)) = part

\* C9: applying Unknown{command_name} writes one error frame whose message
\* holds command_name, returns Ok, and neither looks up nor changes the Db.
C9_UnknownResponse ==
    (Applied /\ ret.cmd.kind = "Unknown") =>
        /\ Len(last.writes) = 1
        /\ last.writes[1].kind = "Error"
        /\ Contains(last.writes[1].str, ret.cmd.command_name)
        /\ conn[Len(conn)] = last.writes[1]
        /\ last.res = "Ok"
        /\ reads = 0
        /\ store = last.db

\* Unknown{set} was applied with a non-empty Db, and the error frame is on
\* the connection.
C9_Witness ==
    /\ Applied
    /\ ret.cmd.kind = "Unknown"
    /\ ret.cmd.command_name = <<"s", "e", "t">>
    /\ store[<<"k">>] = <<"bar">>
    /\ Len(conn) = 1
    /\ conn[1].kind = "Error"
    /\ last.res = "Ok"

\* The frame is no well-formed request: not an array, empty, not starting
\* with a string, or get followed by anything but one string.
Malformed(f) ==
    \/ ~HeadIsString(f)
    \/ HeadIsGet(f) /\ ~OneStringArg(f)

\* from_frame is running.
Parsing == pc \in {"new", "name", "route", "variant", "finish"}

\* C10: protocol errors are raised by from_frame before any access to the
\* Db: while from_frame runs and after it failed nothing was looked up in
\* the Db or written to the connection; whatever was looked up or written
\* was so after from_frame returned Ok on a well-formed request; and no step
\* of from_frame changes the Db, the connection or the lookups.
C10_ErrorsBeforeStore ==
    /\ []((Parsing \/ pc = "err" \/ Malformed(frame)) =>
              (reads = 0 /\ conn = <<>> /\ last = NoApply))
    /\ []((reads > 0 \/ conn # <<>> \/ Applied) =>
              (pc = "ok" /\ ret.tag = "Ok" /\ ~Malformed(frame)))
    /\ [][Parsing => UNCHANGED <<store, conn, reads, last>>]_vars

\* from_frame failed on a non-string argument of get while the Db held a
\* value, and nothing was looked up or written.
C10_Witness ==
    /\ pc = "err"
    /\ HeadIsGet(frame)
    /\ ret = Err("InvalidFrameType")
    /\ store[<<"k">>] = <<"bar">>
    /\ reads = 0
    /\ conn = <<>>

\* ------------------------------------------------- properties: get_name

\* The step is a call of Command::get_name.
GetNameStep == ~name_out.asked /\ name_out'.asked

\* C11: get_name returns "get" for a Get command and the carried lower-case
\* name for an Unknown command, so for every command from_frame returned it
\* is the lower case of the first element of the frame; and the call changes
\* nothing but its own result.
C11_GetName ==
    /\ [](name_out.asked =>
            /\ ret.tag = "Ok"
            /\ ret.cmd.kind = "Get" => name_out.name = GetWord
            /\ ret.cmd.kind = "Unknown" => name_out.name = ret.cmd.command_name
            /\ name_out.name = to_lowercase(frame.elems[1].str))
    /\ [][GetNameStep =>
            UNCHANGED <<frame, pc, pos, command_name, command, ret, steps,
                        store, conn, reads, last>>]_vars

\* get_name was asked of the Unknown command parsed from SeT and answered
\* set.
C11_Witness ==
    /\ name_out.asked
    /\ ret.cmd.kind = "Unknown"
    /\ frame.elems[1].str = <<"S", "e", "T">>
    /\ name_out.name = <<"s", "e", "t">>

\* ------------------------------------------- properties: steps of a parse

\* The step named was taken in the from_frame call at hand.
Passed(step) == \E i \in DOMAIN steps : steps[i] = step

\* How often the step named was taken.
Times(step) == Cardinality({i \in DOMAIN steps : steps[i] = step})

\* The name is get and a string follows it: Get::parse_frames succeeds.
GetKeyParses(f) ==
    /\ HeadIsGet(f)
    /\ Len(f.elems) >= 2
    /\ IsString(f.elems[2])

\* C12: finish() is called exactly when the name matched get and
\* Get::parse_frames succeeded, once, as the last step and after the key was
\* consumed; it is never called for an unrecognized name; and whenever a
\* command other than Unknown is returned, finish() was called and passed.
C12_FinishCalls ==
    /\ Returned => (Passed("finish") <=> GetKeyParses(frame))
    /\ Passed("finish") =>
          /\ steps = <<"new", "name", "route", "variant", "finish">>
          /\ command_name = GetWord
          /\ command.kind = "Get"
          /\ pos = 2
    /\ (Passed("route") /\ command_name # GetWord) => ~Passed("finish")
    /\ ret.cmd.kind = "Unknown" => ~Passed("finish")
    /\ (ret.tag = "Ok" /\ ret.cmd.kind # "Unknown") =>
          /\ Passed("finish")
          /\ pos = Len(frame.elems)

\* finish() was called after the key of get was read, and failed on the
\* element left over.
C12_Witness ==
    /\ pc = "err"
    /\ steps = <<"new", "name", "route", "variant", "finish">>
    /\ command = GetCmd(<<"k">>)
    /\ Len(frame.elems) = 3
    /\ ret = Err("TrailingElements")

\* The elements of the cursor: those of the array, none before the cursor
\* exists.
CursorLen == IF frame.kind = "Array" THEN Len(frame.elems) ELSE 0

\* The step at hand reads the next element of the cursor.
ReadStep == pc \in {"name", "variant"}

\* C13: during one parse the cursor position never decreases, moves by at
\* most one element per step and never passes the end of the array; the
\* elements are handed out in their order, each once: the first as the name,
\* the second as the key; and a read with the position at the end fails with
\* end-of-stream and leaves the position where it is.
C13_CursorAdvances ==
    /\ [](/\ pos <= CursorLen
          /\ Passed("route") =>
                (pos >= 1 /\ command_name = to_lowercase(frame.elems[1].str))
          /\ command.kind = "Get" =>
                (pos = 2 /\ command.key = frame.elems[2].str))
    /\ [][Parsing => (pos' >= pos /\ pos' <= pos + 1)]_vars
    /\ [][(ReadStep /\ pos < CursorLen) => pos' = pos + 1]_vars
    /\ [][(ReadStep /\ pos >= CursorLen) =>
            (pc' = "err" /\ ret' = Err("EndOfStream") /\ pos' = pos)]_vars

\* The name get was read, and the read of the key found the cursor at the
\* end.
C13_Witness ==
    /\ pc = "err"
    /\ steps = <<"new", "name", "route", "variant">>
    /\ Len(frame.elems) = 1
    /\ pos = 1
    /\ ret = Err("EndOfStream")

\* C14: when the array is empty or its first element is no string, the
\* name cannot be read: from_frame returns Err at the name step, with no
\* Command, not even Unknown, and neither the match nor finish() is reached.
C14_NoNameIsError ==
    (frame.kind = "Array" /\ ~HeadIsString(frame)
         /\ pc \notin {"idle", "new", "name"}) =>
        /\ pc = "err"
        /\ ret.tag = "Err"
        /\ ret.err = (IF frame.elems = <<>> THEN "EndOfStream"
                      ELSE "InvalidFrameType")
        /\ ret.cmd = NoCommand
        /\ command = NoCommand
        /\ command_name = <<>>
        /\ steps = <<"new", "name">>
        /\ ~Passed("route")
        /\ ~Passed("finish")

\* from_frame returned Err for an array that starts with a nested array and
\* goes on with a key.
C14_Witness ==
    /\ pc = "err"
    /\ frame.kind = "Array"
    /\ Len(frame.elems) = 2
    /\ frame.elems[1] = NestedArray
    /\ IsString(frame.elems[2])
    /\ ret = Err("InvalidFrameType")

\* ------------------------------------------------- properties: shutdown

\* C15: Get and Unknown ignore the shutdown signal: what apply wrote, what
\* it returned and what it left in the Db are what apply gives for the same
\* command and Db under the opposite signal; two applies in a row of the
\* same command to the same Db write and return the same; and apply leaves
\* the signal as it found it.
C15_ShutdownIgnored ==
    /\ [](Applied =>
            LET other == Command_apply(ret.cmd, last.db, ~last.shutdown)
            IN /\ other.writes = last.writes
               /\ other.res = last.res
               /\ other.db = store
               /\ last.res = "Ok"
               /\ last.signal = last.shutdown)
    /\ [][(ApplyStep /\ Applied /\ last.db = store) =>
            (last'.writes = last.writes /\ last'.res = last.res)]_vars

\* Unknown was applied first without and then with the shutdown signalled,
\* and answered both times.
C15_Witness ==
    /\ last.n = 2
    /\ ret.cmd.kind = "Unknown"
    /\ last.shutdown
    /\ last.signal
    /\ Len(conn) = 2
    /\ conn[1] = conn[2]
    /\ last.res = "Ok"

\* ------------------------------------------------------ several tasks
\* Several connection tasks, each serving its own requests with from_frame
\* and apply, over one shared Db. Every variable but store holds one value
\* per task.

Tasks == {"t1", "t2"}

\* The requests the tasks receive.
ConcFrames ==
    {Array(<<Bulk(<<"g", "e", "t">>), Bulk(<<"k">>)>>),
     Array(<<Bulk(<<"G", "E", "T">>), Simple(<<"K">>)>>),
     Array(<<Bulk(<<"g", "e", "t">>), Bulk(<<"k">>), Bulk(<<"K">>)>>),
     Array(<<Bulk(<<"S", "e", "t">>), Bulk(<<"k">>), Integer>>),
     Array(<<Integer>>),
     Scalar(Null)}

\* The locals of task t's from_frame call.
CtxOf(t) ==
    [pc |-> pc[t], pos |-> pos[t], command_name |-> command_name[t],
     command |-> command[t], ret |-> ret[t], steps |-> steps[t]]

SetCtxOf(t, c) ==
    /\ pc' = [pc EXCEPT ![t] = c.pc]
    /\ pos' = [pos EXCEPT ![t] = c.pos]
    /\ command_name' = [command_name EXCEPT ![t] = c.command_name]
    /\ command' = [command EXCEPT ![t] = c.command]
    /\ ret' = [ret EXCEPT ![t] = c.ret]
    /\ steps' = [steps EXCEPT ![t] = c.steps]

\* The Db holds anything; every task waits for its first request.
InitConc ==
    /\ frame = [t \in Tasks |-> NoFrame]
    /\ pc = [t \in Tasks |-> "idle"]
    /\ pos = [t \in Tasks |-> 0]
    /\ command_name = [t \in Tasks |-> <<>>]
    /\ command = [t \in Tasks |-> NoCommand]
    /\ ret = [t \in Tasks |-> Pending]
    /\ steps = [t \in Tasks |-> <<>>]
    /\ conn = [t \in Tasks |-> <<>>]
    /\ reads = [t \in Tasks |-> 0]
    /\ last = [t \in Tasks |-> NoApply]
    /\ name_out = [t \in Tasks |-> NoName]
    /\ store \in [Keys -> Values \cup {NoValue}]

\* Task t is handed a frame and calls from_frame.
TaskReceive(t) ==
    /\ pc[t] = "idle"
    /\ \E f \in ConcFrames : frame' = [frame EXCEPT ![t] = f]
    /\ SetCtxOf(t, StartCtx)
    /\ UNCHANGED <<store, conn, reads, last, name_out>>

\* Task t takes the next step of its from_frame call.
TaskParse(t) ==
    /\ pc[t] \in {"new", "name", "route", "variant", "finish"}
    /\ SetCtxOf(t, Step(frame[t], CtxOf(t)))
    /\ UNCHANGED <<frame, store, conn, reads, last, name_out>>

\* Task t applies the command from_frame returned, once.
TaskApply(t) ==
    /\ pc[t] = "ok"
    /\ last[t].n = 0
    /\ \E shutdown \in BOOLEAN :
         LET r == Command_apply(ret[t].cmd, store, shutdown)
         IN /\ store' = r.db
            /\ conn' = [conn EXCEPT ![t] = @ \o r.writes]
            /\ reads' = [reads EXCEPT ![t] = @ + r.reads]
            /\ last' = [last EXCEPT ![t] =
                          [n |-> 1, db |-> store, shutdown |-> shutdown,
                           writes |-> r.writes, res |-> r.res,
                           signal |-> r.signal]]
    /\ UNCHANGED <<frame, pc, pos, command_name, command, ret, steps, name_out>>

\* Task t is through with its request and waits for the next one.
TaskDone(t) ==
    /\ pc[t] \in {"ok", "err"}
    /\ frame' = [frame EXCEPT ![t] = NoFrame]
    /\ pc' = [pc EXCEPT ![t] = "idle"]
    /\ pos' = [pos EXCEPT ![t] = 0]
    /\ command_name' = [command_name EXCEPT ![t] = <<>>]
    /\ command' = [command EXCEPT ![t] = NoCommand]
    /\ ret' = [ret EXCEPT ![t] = Pending]
    /\ steps' = [steps EXCEPT ![t] = <<>>]
    /\ conn' = [conn EXCEPT ![t] = <<>>]
    /\ reads' = [reads EXCEPT ![t] = 0]
    /\ last' = [last EXCEPT ![t] = NoApply]
    /\ UNCHANGED <<store, name_out>>

NextConc ==
    \E t \in Tasks :
        \/ TaskReceive(t)
        \/ TaskParse(t)
        \/ TaskApply(t)
        \/ TaskDone(t)

SpecConc == InitConc /\ [][NextConc]_vars

\* Everything task t owns: its frame, its cursor and locals, its command,
\* its connection and its apply record.
Owned(t) ==
    <<frame[t], pc[t], pos[t], command_name[t], command[t], ret[t], steps[t],
      conn[t], reads[t], last[t]>>

\* C16: with several tasks over one Db, under every interleaving the Db
\* never changes, no step touches what two different tasks own, and every
\* response to a Get is the value the Db holds under its key, or Null.
C16_TasksShareStore ==
    /\ [][store' = store]_vars
    /\ [][\A t, u \in Tasks :
            (t # u /\ Owned(t)' # Owned(t)) => Owned(u)' = Owned(u)]_vars
    /\ [](\A t \in Tasks :
            (last[t].n >= 1 /\ ret[t].cmd.kind = "Get") =>
                /\ last[t].db = store
                /\ conn[t] = <<IF Stored(store, ret[t].cmd.key) # NoValue
                               THEN Bulk(Stored(store, ret[t].cmd.key))
                               ELSE Null>>)

\* Both tasks have applied a Get: one was answered the value under k, the
\* other Null for K.
C16_Witness ==
    /\ ret["t1"].cmd = GetCmd(<<"k">>)
    /\ ret["t2"].cmd = GetCmd(<<"K">>)
    /\ conn["t1"] = <<Bulk(<<"bar">>)>>
    /\ conn["t2"] = <<Null>>

\* --------------------------------------------- properties: parse result

\* The string has no upper-case letter.
IsLower(str) == \A i \in DOMAIN str : str[i] \in LowerLetters

\* C17: what from_frame returns is sound. A Get{key} comes from an array of
\* exactly two strings, the first some spelling of get, the second the key;
\* an Unknown{name} carries a name in lower case that is not get, the lower
\* case of the first element; and no other command is returned.
C17_ResultSound ==
    /\ ret.tag = "Ok" => ret.cmd.kind \in {"Get", "Unknown"}
    /\ ret.tag # "Ok" => ret.cmd = NoCommand
    /\ ret.cmd.kind = "Get" =>
          /\ frame.kind = "Array"
          /\ Len(frame.elems) = 2
          /\ IsString(frame.elems[1])
          /\ IsString(frame.elems[2])
          /\ to_lowercase(frame.elems[1].str) = GetWord
          /\ ret.cmd.key = frame.elems[2].str
    /\ ret.cmd.kind = "Unknown" =>
          /\ HeadIsString(frame)
          /\ IsLower(ret.cmd.command_name)
          /\ ret.cmd.command_name # GetWord
          /\ ret.cmd.command_name = to_lowercase(frame.elems[1].str)

\* from_frame returned Get{k} for the simple strings get and k.
C17_Witness ==
    /\ Returned
    /\ frame = Array(<<Simple(<<"g", "e", "t">>), Simple(<<"k">>)>>)
    /\ ret = Ok(GetCmd(<<"k">>))

\* The steps of from_frame in the order of the code.
StepOrder == <<"new", "name", "route", "variant", "finish">>

\* Some step of from_frame.
ParseStep ==
    \/ FromFrame_New
    \/ FromFrame_Name
    \/ FromFrame_Route
    \/ FromFrame_Variant
    \/ FromFrame_Finish

\* C18: from_frame is linear. The steps passed are a prefix of cursor
\* construction, name extraction, routing, variant parse, finalization, so
\* none is repeated; while it runs nothing is returned and a next step is
\* possible, and each step takes it one step further; it ends in exactly
\* one of Ok with a Command and Err without one, which is what five steps
\* in a row give for the frame, and the result then stays; and it reads at
\* most as many elements as the array holds.
C18_LinearParse ==
    /\ [](/\ Len(steps) <= Len(StepOrder)
          /\ steps = SubSeq(StepOrder, 1, Len(steps))
          /\ \A i \in DOMAIN StepOrder : Times(StepOrder[i]) <= 1
          /\ pos <= CursorLen
          /\ pos <= Len(steps)
          /\ Parsing => (/\ ret = Pending
                         /\ ENABLED ParseStep
                         /\ Len(steps) < Len(StepOrder)
                         /\ pc = StepOrder[Len(steps) + 1])
          /\ pc = "ok" => (ret.tag = "Ok" /\ ret.cmd # NoCommand)
          /\ pc = "err" => (ret.tag = "Err" /\ ret.cmd = NoCommand
                               /\ ret.err # "none")
          /\ Returned => (steps # <<>> /\ ret = from_frame(frame)))
    /\ [][Parsing => (steps' = Append(steps, pc) /\ pc' # pc)]_vars
    /\ [][(Returned /\ pc' # "idle") => (ret' = ret /\ steps' = steps)]_vars

\* from_frame ran through all five steps and returned a Command with the
\* cursor at the end of the array.
C18_Witness ==
    /\ pc = "ok"
    /\ steps = StepOrder
    /\ pos = CursorLen
    /\ ret.tag = "Ok"
    /\ last.n = 0

=============================================================================
